---- MODULE Spec2Model ----
(***************************************************************************)
(* TimePublisher of mqtt_time_publisher.py: the main thread running run()  *)
(* (with connect() and publish_time() inlined at their call sites) and the *)
(* client's background network loop, which invokes on_connect and          *)
(* on_disconnect.  The two threads share the flag self.connected.          *)
(*                                                                         *)
(* Time is counted in half seconds inside connect() (wait_time) and in     *)
(* whole seconds for the wall clock (now).                                 *)
(***************************************************************************)
EXTENDS Integers, Sequences, FiniteSets, TLC

\* ---------------------------------------------------------------- bounds
\* Largest wall-clock second the model's clock reaches.
MaxTime == 2
\* Length of the window over which successive steady cycles are counted.
MaxRun == 3

\* ------------------------------------------------------ program constants
\* connect(): `wait_time < 10` polled in steps of 0.5, i.e. 20 half seconds.
WaitLimit == 20
\* connect(): `wait_time += 0.5`, one half second.
WaitStep == 1

VARIABLES
    pc,            \* position of the main thread in run()/connect()/publish_time()
    caller,        \* call site of the running connect(): "init" (line 143) or "loop" (line 153)
    connected,     \* self.connected
    session,       \* the client's broker session: "none", "pending", "up", "refused", "closed"
    loop_running,  \* the background network loop thread exists
    broker_ok,     \* the broker has become stable (acknowledges, no disconnects)
    wait_time,     \* connect()'s local wait_time, in half seconds
    now,           \* wall clock, whole seconds
    unix_time,     \* publish_time()'s local unix_time
    last_pub,      \* unix_time of the last payload handed to client.publish
    pt_outcome,    \* how the last publish_time() call ended
    last_connect,  \* how the last connect() call ended
    init_result,   \* how the initial connect() call (line 143) ended
    suspended,     \* a disconnect arrived in the main loop and no connect() has succeeded since
    run_pubs,      \* publishes issued in the current steady run
    run_sleeps,    \* interval sleeps completed in the current steady run
    int_at,        \* where the interrupt was delivered ("none": not delivered)
    errored,       \* an unexpected error was raised in the loop body
    ret,           \* run()'s return value: "none", "0", "1"
    stops,         \* calls of client.loop_stop()
    disconnects    \* calls of client.disconnect()

vars == <<pc, caller, connected, session, loop_running, broker_ok, wait_time,
          now, unix_time, last_pub, pt_outcome, last_connect, init_result,
          suspended, run_pubs, run_sleeps, int_at, errored, ret, stops,
          disconnects>>

\* Variables only the main thread's bookkeeping touches.
ghost == <<last_connect, init_result, suspended, run_pubs, run_sleeps>>

\* Positions inside connect().
ConnectPcs == {"c_open", "c_loop_start", "c_wait", "c_check"}
\* Positions inside publish_time().
PublishPcs == {"pt_check", "pt_stamp", "pt_publish"}
\* Positions inside `while True` of run() (lines 148-159).
LoopPcs == {"loop_top", "cooldown", "sleep_interval"} \cup PublishPcs

\* The main thread is inside the try block of run().
InLoop == pc \in LoopPcs \/ (pc \in ConnectPcs /\ caller = "loop")

\* The main thread is inside the initial connect() of line 143.
InInit == pc = "start" \/ (pc \in ConnectPcs /\ caller = "init")

\* The state after TimePublisher() (lines 51-67), the wall clock showing t.
InitAt(t) ==
    /\ pc = "start"
    /\ caller = "init"
    /\ connected = FALSE
    /\ session = "none"
    /\ loop_running = FALSE
    /\ broker_ok = FALSE
    /\ wait_time = 0
    /\ now = t
    /\ unix_time = 0
    /\ last_pub = 0
    /\ pt_outcome = "none"
    /\ last_connect = "none"
    /\ init_result = "none"
    /\ suspended = FALSE
    /\ run_pubs = 0
    /\ run_sleeps = 0
    /\ int_at = "none"
    /\ errored = FALSE
    /\ ret = "none"
    /\ stops = 0
    /\ disconnects = 0

Init == InitAt(0)

\* ------------------------------------------------- the network loop thread
\* Reason codes the broker answers a CONNECT with: 0 accepts, 5 refuses.
ReasonCodes == {0, 5}

\* A steady run (flag Connected, publishes succeeding) ends.
RunBroken == run_pubs' = 0 /\ run_sleeps' = 0

\* on_connect without the test of rc: any answer sets the flag.
on_connect_any_rc(rc) ==
    /\ connected' = TRUE
    /\ UNCHANGED <<run_pubs, run_sleeps>>
    /\ UNCHANGED <<suspended, last_connect, init_result>>

\* on_connect(client, userdata, flags, rc), lines 69-76.
on_connect(rc) ==
    /\ connected' = (rc = 0)
    /\ IF rc = 0
         THEN UNCHANGED <<run_pubs, run_sleeps>>
         ELSE RunBroken
    /\ UNCHANGED <<suspended, last_connect, init_result>>

\* on_disconnect(client, userdata, rc), lines 78-80.
on_disconnect ==
    /\ connected' = FALSE
    /\ suspended' = (suspended \/ InLoop)
    /\ RunBroken
    /\ UNCHANGED <<last_connect, init_result>>

\* The network loop reads the broker's answer to the CONNECT sent by
\* client.connect() (line 88) and invokes on_connect with its reason code.
net_connack(rc) ==
    /\ loop_running
    /\ session = "pending"
    /\ broker_ok => rc = 0
    /\ on_connect(rc)
    /\ session' = IF rc = 0 THEN "up" ELSE "refused"
    /\ UNCHANGED <<pc, caller, loop_running, broker_ok, wait_time, now,
                   unix_time, last_pub, pt_outcome, int_at, errored, ret,
                   stops, disconnects>>

\* The network loop finds the connection gone and invokes on_disconnect.
net_disconnect ==
    /\ loop_running
    /\ session \in {"pending", "up"}
    /\ ~broker_ok
    /\ on_disconnect
    /\ session' = "closed"
    /\ UNCHANGED <<pc, caller, loop_running, broker_ok, wait_time, now,
                   unix_time, last_pub, pt_outcome, int_at, errored, ret,
                   stops, disconnects>>

\* From some point on the broker acknowledges every connection attempt and
\* sends no further disconnects.
broker_recovers ==
    /\ ~broker_ok
    /\ broker_ok' = TRUE
    /\ UNCHANGED <<pc, caller, connected, session, loop_running, wait_time,
                   now, unix_time, last_pub, pt_outcome, int_at, errored, ret,
                   stops, disconnects>>
    /\ UNCHANGED ghost

\* The wall clock read by time.time() (line 113) advances.
Tick ==
    /\ pc \notin {"done", "raised"}
    /\ now < MaxTime
    /\ now' = now + 1
    /\ UNCHANGED <<pc, caller, connected, session, loop_running, broker_ok,
                   wait_time, unix_time, last_pub, pt_outcome, int_at,
                   errored, ret, stops, disconnects>>
    /\ UNCHANGED ghost

\* ---------------------------------------------------------------- connect()
\* connect_return with a failed reconnect treated like a failed initial
\* connect: run() gives up and returns 1.
connect_return_giving_up(result, how) ==
    /\ last_connect' = how
    /\ wait_time' = 0
    /\ init_result' = IF caller = "init" THEN how ELSE init_result
    /\ pc' = IF result
               THEN (IF caller = "init" THEN "loop_top" ELSE "sleep_interval")
               ELSE "done"
    /\ ret' = IF result THEN ret ELSE "1"
    /\ suspended' = (suspended /\ ~result)

\* What the caller of connect() does with its result: run() line 143-145
\* for the initial call, lines 153-159 for a reconnect.
connect_return(result, how) ==
    /\ last_connect' = how
    /\ wait_time' = 0
    /\ IF caller = "init"
         THEN /\ init_result' = how
              /\ pc' = IF result THEN "loop_top" ELSE "done"
              /\ ret' = IF result THEN ret ELSE "1"
              /\ UNCHANGED suspended
         ELSE /\ pc' = IF result THEN "sleep_interval" ELSE "cooldown"
              /\ suspended' = (suspended /\ ~result)
              /\ UNCHANGED <<init_result, ret>>

\* self.client.connect(MQTT_HOST, MQTT_PORT, 60), line 88: opens the session
\* and sends CONNECT, or raises (caught at line 102, connect() returns False).
connect_open ==
    /\ pc = "c_open"
    /\ \/ /\ session' = "pending"
          /\ pc' = "c_loop_start"
          /\ UNCHANGED <<wait_time, ret>>
          /\ UNCHANGED ghost
       \/ /\ ~broker_ok
          /\ connect_return(FALSE, "error")
          /\ UNCHANGED <<session, run_pubs, run_sleeps>>
    /\ UNCHANGED <<caller, connected, loop_running, broker_ok, now, unix_time,
                   last_pub, pt_outcome, int_at, errored, stops, disconnects>>

\* self.client.loop_start(), line 89, and `wait_time = 0`, line 92.
connect_loop_start ==
    /\ pc = "c_loop_start"
    /\ loop_running' = TRUE
    /\ wait_time' = 0
    /\ pc' = "c_wait"
    /\ UNCHANGED <<caller, connected, session, broker_ok, now, unix_time,
                   last_pub, pt_outcome, int_at, errored, ret, stops,
                   disconnects>>
    /\ UNCHANGED ghost

\* connect_wait without `wait_time += 0.5`: the wait never runs out.
connect_wait_no_count ==
    /\ pc = "c_wait"
    /\ IF ~connected /\ wait_time < WaitLimit
         THEN /\ UNCHANGED wait_time
              /\ pc' = "c_wait"
         ELSE /\ pc' = "c_check"
              /\ UNCHANGED wait_time
    /\ UNCHANGED <<caller, connected, session, loop_running, broker_ok, now,
                   unix_time, last_pub, pt_outcome, int_at, errored, ret,
                   stops, disconnects>>
    /\ UNCHANGED ghost

\* while not self.connected and wait_time < 10: sleep(0.5); wait_time += 0.5
\* (lines 93-95): one evaluation of the condition and, if it holds, one poll.
connect_wait ==
    /\ pc = "c_wait"
    /\ IF ~connected /\ wait_time < WaitLimit
         THEN /\ wait_time' = wait_time + WaitStep
              /\ pc' = "c_wait"
         ELSE /\ pc' = "c_check"
              /\ UNCHANGED wait_time
    /\ UNCHANGED <<caller, connected, session, loop_running, broker_ok, now,
                   unix_time, last_pub, pt_outcome, int_at, errored, ret,
                   stops, disconnects>>
    /\ UNCHANGED ghost

\* if not self.connected: return False / return True, lines 97-101.  A
\* failure with the CONNECT still unanswered is a timeout; otherwise the
\* session was refused or lost during the wait.
connect_check ==
    /\ pc = "c_check"
    /\ IF connected
         THEN connect_return(TRUE, "ok")
         ELSE connect_return(FALSE, IF session = "pending" THEN "timeout" ELSE "refused")
    /\ UNCHANGED <<caller, connected, session, loop_running, broker_ok, now,
                   unix_time, last_pub, pt_outcome, int_at, errored, stops,
                   disconnects, run_pubs, run_sleeps>>

\* ----------------------------------------------------------- publish_time()
\* How a publish_time() call can end: "skipped" (lines 107-109),
\* "published" (line 128), "rejected" (line 131), "error" (line 135).
PublishOutcomes == {"published", "rejected", "error"}

\* The value publish_time() returns for each way it ends.
publish_time_result(outcome) == outcome = "published"

\* publish_time_check without the early return: the flag is not consulted.
publish_time_check_unguarded ==
    /\ pc = "pt_check"
    /\ pc' = "pt_stamp"
    /\ UNCHANGED <<caller, connected, session, loop_running, broker_ok,
                   wait_time, now, unix_time, last_pub, pt_outcome, int_at,
                   errored, ret, stops, disconnects>>
    /\ UNCHANGED ghost

\* if not self.connected: ... return False, lines 107-109.  The call itself
\* was made by run() at line 150; control returns to line 159.
publish_time_check ==
    /\ pc = "pt_check"
    /\ IF ~connected
         THEN /\ pt_outcome' = "skipped"
              /\ pc' = "sleep_interval"
         ELSE /\ pc' = "pt_stamp"
              /\ UNCHANGED pt_outcome
    /\ UNCHANGED <<caller, connected, session, loop_running, broker_ok,
                   wait_time, now, unix_time, last_pub, int_at, errored, ret,
                   stops, disconnects>>
    /\ UNCHANGED ghost

\* unix_time = int(time.time()) and the payload of lines 113-118.
publish_time_stamp ==
    /\ pc = "pt_stamp"
    /\ unix_time' = now
    /\ pc' = "pt_publish"
    /\ UNCHANGED <<caller, connected, session, loop_running, broker_ok,
                   wait_time, now, last_pub, pt_outcome, int_at, errored, ret,
                   stops, disconnects>>
    /\ UNCHANGED ghost

\* The bookkeeping of a publish call that ended with `outcome`: a steady run
\* grows by one publish when the call succeeded with the flag Connected, and
\* ends otherwise.  A full window starts over.
publish_counted(outcome) ==
    IF outcome = "published" /\ connected
      THEN IF run_pubs < MaxRun
             THEN run_pubs' = run_pubs + 1 /\ UNCHANGED run_sleeps
             ELSE run_pubs' = 1 /\ run_sleeps' = 0
      ELSE RunBroken

\* publish_time_publish followed by `continue`: the next iteration starts
\* without the interval sleep of line 159.
publish_time_publish_no_sleep(outcome) ==
    /\ pc = "pt_publish"
    /\ last_pub' = unix_time
    /\ pt_outcome' = outcome
    /\ publish_counted(outcome)
    /\ pc' = "loop_top"
    /\ UNCHANGED <<caller, connected, session, loop_running, broker_ok,
                   wait_time, now, unix_time, int_at, errored, ret, stops,
                   disconnects, last_connect, init_result, suspended>>

\* publish_time_publish taking a failed publish as the loss of the session:
\* it sets the flag to Disconnected.
publish_time_publish_drops_flag(outcome) ==
    /\ pc = "pt_publish"
    /\ last_pub' = unix_time
    /\ pt_outcome' = outcome
    /\ publish_counted(outcome)
    /\ connected' = (connected /\ outcome = "published")
    /\ pc' = "sleep_interval"
    /\ UNCHANGED <<caller, session, loop_running, broker_ok, wait_time, now,
                   unix_time, int_at, errored, ret, stops, disconnects,
                   last_connect, init_result, suspended>>

\* publish_time_publish with the exception of client.publish not caught:
\* it reaches the handler of line 163 and ends the loop.
publish_time_publish_uncaught(outcome) ==
    /\ pc = "pt_publish"
    /\ last_pub' = unix_time
    /\ pt_outcome' = outcome
    /\ publish_counted(outcome)
    /\ pc' = IF outcome = "error" THEN "except_exc" ELSE "sleep_interval"
    /\ UNCHANGED <<caller, connected, session, loop_running, broker_ok,
                   wait_time, now, unix_time, int_at, errored, ret, stops,
                   disconnects, last_connect, init_result, suspended>>

\* result = self.client.publish(topic, json.dumps(payload), qos=1) and the
\* handling of its result, lines 122-135.  Whatever the outcome, control
\* returns to run() line 159.
publish_time_publish(outcome) ==
    /\ pc = "pt_publish"
    /\ last_pub' = unix_time
    /\ pt_outcome' = outcome
    /\ publish_counted(outcome)
    /\ pc' = "sleep_interval"
    /\ UNCHANGED <<caller, connected, session, loop_running, broker_ok,
                   wait_time, now, unix_time, int_at, errored, ret, stops,
                   disconnects, last_connect, init_result, suspended>>

\* --------------------------------------------------------------------- run()
\* Lines 138-143: the log lines and the call of the initial connect().
run_start ==
    /\ pc = "start"
    /\ caller' = "init"
    /\ pc' = "c_open"
    /\ UNCHANGED <<connected, session, loop_running, broker_ok, wait_time,
                   now, unix_time, last_pub, pt_outcome, int_at, errored, ret,
                   stops, disconnects>>
    /\ UNCHANGED ghost

\* run_loop without the else branch: a Disconnected flag only skips the
\* publish, nothing reconnects.
run_loop_no_reconnect ==
    /\ pc = "loop_top"
    /\ pc' = IF connected THEN "pt_check" ELSE "sleep_interval"
    /\ UNCHANGED <<caller, connected, session, loop_running, broker_ok,
                   wait_time, now, unix_time, last_pub, pt_outcome, int_at,
                   errored, ret, stops, disconnects>>
    /\ UNCHANGED ghost

\* if self.connected: self.publish_time() else: ... self.connect(),
\* lines 149-153.
run_loop ==
    /\ pc = "loop_top"
    /\ IF connected
         THEN /\ pc' = "pt_check"
              /\ UNCHANGED caller
         ELSE /\ pc' = "c_open"
              /\ caller' = "loop"
    /\ UNCHANGED <<connected, session, loop_running, broker_ok, wait_time,
                   now, unix_time, last_pub, pt_outcome, int_at, errored, ret,
                   stops, disconnects>>
    /\ UNCHANGED ghost

\* run_cooldown without `continue`: after the cooldown the iteration goes on
\* to the interval sleep of line 159.
run_cooldown_falls_through ==
    /\ pc = "cooldown"
    /\ pc' = "sleep_interval"
    /\ UNCHANGED <<caller, connected, session, loop_running, broker_ok,
                   wait_time, now, unix_time, last_pub, pt_outcome, int_at,
                   errored, ret, stops, disconnects>>
    /\ UNCHANGED ghost

\* time.sleep(30); continue, lines 155-156.
run_cooldown ==
    /\ pc = "cooldown"
    /\ pc' = "loop_top"
    /\ UNCHANGED <<caller, connected, session, loop_running, broker_ok,
                   wait_time, now, unix_time, last_pub, pt_outcome, int_at,
                   errored, ret, stops, disconnects>>
    /\ UNCHANGED ghost

\* time.sleep(PUBLISH_INTERVAL), line 159, run to its end.
run_sleep ==
    /\ pc = "sleep_interval"
    /\ pc' = "loop_top"
    /\ run_sleeps' = IF run_pubs > 0 THEN run_sleeps + 1 ELSE run_sleeps
    /\ UNCHANGED <<caller, connected, session, loop_running, broker_ok,
                   wait_time, now, unix_time, last_pub, pt_outcome, int_at,
                   errored, ret, stops, disconnects, last_connect,
                   init_result, suspended, run_pubs>>

\* interrupt_target with the interval sleep swallowing the interrupt: the
\* sleep is abandoned and the loop goes on.
interrupt_target_swallowed ==
    IF InInit THEN "raised"
    ELSE IF pc = "sleep_interval" THEN "loop_top" ELSE "except_kbd"

\* Where a KeyboardInterrupt raised at the current position is handled:
\* inside the try block by line 161, before it by nobody.
interrupt_target == IF InInit THEN "raised" ELSE "except_kbd"

\* A KeyboardInterrupt is raised in the main thread.  One interrupt is
\* delivered per run, at any position from line 138 to line 159.
run_interrupt ==
    /\ int_at = "none"
    /\ InInit \/ InLoop
    /\ int_at' = IF pc \in ConnectPcs THEN caller ELSE pc
    /\ pc' = interrupt_target
    /\ UNCHANGED <<caller, connected, session, loop_running, broker_ok,
                   wait_time, now, unix_time, last_pub, pt_outcome, errored,
                   ret, stops, disconnects>>
    /\ UNCHANGED ghost

\* run_error without the handler of line 163: the exception leaves run().
run_error_propagates ==
    /\ pc \in {"loop_top", "cooldown", "sleep_interval"}
    /\ ~errored
    /\ errored' = TRUE
    /\ pc' = "raised"
    /\ UNCHANGED <<caller, connected, session, loop_running, broker_ok,
                   wait_time, now, unix_time, last_pub, pt_outcome, int_at,
                   ret, stops, disconnects>>
    /\ UNCHANGED ghost

\* An exception other than KeyboardInterrupt is raised by a statement of the
\* loop body that no inner try block covers; line 163 catches it.
run_error ==
    /\ pc \in {"loop_top", "cooldown", "sleep_interval"}
    /\ ~errored
    /\ errored' = TRUE
    /\ pc' = "except_exc"
    /\ UNCHANGED <<caller, connected, session, loop_running, broker_ok,
                   wait_time, now, unix_time, last_pub, pt_outcome, int_at,
                   ret, stops, disconnects>>
    /\ UNCHANGED ghost

\* finally: self.client.loop_stop(), line 166, entered from either handler.
run_loop_stop ==
    /\ pc \in {"except_kbd", "except_exc"}
    /\ loop_running' = FALSE
    /\ stops' = stops + 1
    /\ pc' = "finally_disconnect"
    /\ UNCHANGED <<caller, connected, session, broker_ok, wait_time, now,
                   unix_time, last_pub, pt_outcome, int_at, errored, ret,
                   disconnects>>
    /\ UNCHANGED ghost

\* self.client.disconnect(), line 167, and `return 0`, line 170.
run_disconnect ==
    /\ pc = "finally_disconnect"
    /\ session' = "closed"
    /\ disconnects' = disconnects + 1
    /\ ret' = "0"
    /\ pc' = "done"
    /\ UNCHANGED <<caller, connected, loop_running, broker_ok, wait_time, now,
                   unix_time, last_pub, pt_outcome, int_at, errored, stops>>
    /\ UNCHANGED ghost

\* ------------------------------------------------------------ specification
MainStep ==
    \/ run_start
    \/ connect_open
    \/ connect_loop_start
    \/ connect_wait
    \/ connect_check
    \/ run_loop
    \/ publish_time_check
    \/ publish_time_stamp
    \/ \E outcome \in PublishOutcomes : publish_time_publish(outcome)
    \/ run_cooldown
    \/ run_sleep
    \/ run_loop_stop
    \/ run_disconnect

Next ==
    \/ MainStep
    \/ run_interrupt
    \/ run_error
    \/ \E rc \in ReasonCodes : net_connack(rc)
    \/ net_disconnect
    \/ broker_recovers
    \/ Tick

Spec == Init /\ [][Next]_vars

\* The main thread keeps running, and the network loop delivers the
\* acknowledgment of a broker that has become stable.
LiveSpec ==
    /\ Spec
    /\ WF_vars(MainStep)
    /\ WF_vars(broker_ok /\ net_connack(0))

\* --------------------------------------------- the message of line 122
\* MQTT_BASE, line 35.
MQTT_BASE == "tc001"

\* The characters of the decimal digits, by value.
DigitChars == <<"0", "1", "2", "3", "4", "5", "6", "7", "8", "9">>

\* str(n) for an integer n, as json.dumps writes an int: a sequence of
\* characters.
RECURSIVE IntChars(_)
IntChars(n) ==
    IF n < 0 THEN <<"-">> \o IntChars(0 - n)
    ELSE IF n < 10 THEN <<DigitChars[n + 1]>>
    ELSE IntChars(n \div 10) \o <<DigitChars[(n % 10) + 1]>>

\* The key "unix_time" of the payload (line 117), as characters.
KeyUnixTime == <<"u", "n", "i", "x", "_", "t", "i", "m", "e">>

\* The key of the human-readable time that line 126 computes for the log.
KeyHumanTime == <<"h", "u", "m", "a", "n", "_", "t", "i", "m", "e">>

\* The members of a dict, json.dumps style: "key": value joined by ", ".
RECURSIVE MemberChars(_)
MemberChars(members) ==
    IF members = <<>> THEN <<>>
    ELSE LET m == Head(members)
             one == <<"\"">> \o m[1] \o <<"\"", ":", " ">> \o IntChars(m[2])
         IN  IF Len(members) = 1 THEN one
             ELSE one \o <<",", " ">> \o MemberChars(Tail(members))

\* json.dumps(payload) for a dict of integer values, given as the sequence
\* of its <<key, value>> items.
json_dumps(members) == <<"{">> \o MemberChars(members) \o <<"}">>

\* The dict built at lines 116-118.
payload == << <<KeyUnixTime, unix_time>> >>

\* The arguments of self.client.publish at line 122, with the log's
\* human-readable time also put in the payload.
publish_payload_with_human_time ==
    json_dumps(<< <<KeyUnixTime, unix_time>>, <<KeyHumanTime, unix_time>> >>)

\* The arguments of self.client.publish at line 122: the topic of line 121,
\* the serialized payload, and qos.
publish_topic == MQTT_BASE \o "/time"
publish_payload == json_dumps(payload)
publish_qos == 1

\* ---- a reader of JSON objects with integer values, for the receiving side
IsDigit(c) == \E d \in 1..10 : DigitChars[d] = c
DigitValue(c) == (CHOOSE d \in 1..10 : DigitChars[d] = c) - 1

\* The integer whose digits start at text[i]: <<value, index after it>>.
RECURSIVE ReadInt(_, _, _)
ReadInt(text, i, acc) ==
    IF i <= Len(text) /\ IsDigit(text[i])
      THEN ReadInt(text, i + 1, acc * 10 + DigitValue(text[i]))
      ELSE <<acc, i>>

\* The characters from text[i] up to the closing quote: <<key, its index>>.
RECURSIVE ReadKey(_, _, _)
ReadKey(text, i, acc) ==
    IF i > Len(text) \/ text[i] = "\""
      THEN <<acc, i>>
      ELSE ReadKey(text, i + 1, Append(acc, text[i]))

\* The members from text[i] to the closing brace; <<>> if text is no
\* object of integer members.
RECURSIVE ReadMembers(_, _, _)
ReadMembers(text, i, acc) ==
    IF ~(i <= Len(text) /\ text[i] = "\"") THEN <<>>
    ELSE
      LET k == ReadKey(text, i + 1, <<>>)
          j == k[2]
      IN
      IF ~(j + 2 <= Len(text) /\ text[j] = "\"" /\ text[j + 1] = ":" /\ text[j + 2] = " ")
        THEN <<>>
        ELSE
          LET v == ReadInt(text, j + 3, 0)
              m == v[2]
              got == Append(acc, <<k[1], v[1]>>)
          IN
          IF m = j + 3 THEN <<>>
          ELSE IF m = Len(text) /\ text[m] = "}" THEN got
          ELSE IF m + 1 <= Len(text) /\ text[m] = "," /\ text[m + 1] = " "
            THEN ReadMembers(text, m + 2, got)
          ELSE <<>>

\* json.loads(text): the <<key, value>> items of the object, <<>> if text is
\* not an object of integer members.
json_loads(text) ==
    IF Len(text) >= 2 /\ text[1] = "{" THEN ReadMembers(text, 2, <<>>) ELSE <<>>

\* Wall-clock seconds at which a run starts.
StartTimes == {0, 10, 1700000000}

\* A run started at any of these seconds.
PayloadSpec == (\E t \in StartTimes : InitAt(t)) /\ [][Next]_vars

\* ------------------------------------------------------------------ claims
\* The main thread hands a payload to client.publish (line 122).
ClientPublish == \E outcome \in PublishOutcomes : publish_time_publish(outcome)

\* C1: in every interleaving of the main loop with on_connect and
\* on_disconnect, client.publish is called only in a state where
\* self.connected is True, also when a disconnect arrives between the check
\* of the flag and the call.
C1_PublishOnlyWhileConnected == [][ClientPublish => connected]_vars

\* C2: after a disconnect event delivered in the main loop no publish is
\* issued until a later call of connect() has returned success, and the flag
\* is Connected again only through such a call: while none has succeeded,
\* the flag is Connected at most inside a reconnect that is under way.
C2_SuspendedUntilConnectSucceeds ==
    [][/\ (suspended' /\ connected') => (pc' \in ConnectPcs /\ caller' = "loop")
       /\ ClientPublish => ~suspended]_vars

\* The ways connect() fails.
ConnectFailures == {"timeout", "refused", "error"}

\* C3: when connect() has returned failure because no acknowledgment came
\* within the bounded wait, the flag is Disconnected for the rest of that
\* loop cycle, the cooldown included: a late acknowledgment does not set it.
C3_TimeoutLeavesDisconnected ==
    (pc = "cooldown" /\ last_connect = "timeout") => ~connected

\* Positions of the shutdown path, from the handler to the return.
ShutdownPcs == {"except_kbd", "finally_disconnect", "done"}

\* C4: an interrupt delivered at any point of run(), the initial connect()
\* included, makes the shutdown path run exactly once and run() end with
\* status 0.
C4_InterruptShutsDownOnce ==
    int_at # "none" =>
        /\ pc \in ShutdownPcs
        /\ stops <= 1 /\ disconnects <= 1
        /\ pc = "done" => (ret = "0" /\ stops = 1 /\ disconnects = 1)

\* C5: after an interrupt delivered during the interval sleep no publish is
\* issued, the main thread is on the shutdown path, and when run() has
\* returned it returned 0 with the network loop stopped and the client
\* disconnected.
C5_InterruptInSleep ==
    [][int_at' = "sleep_interval" =>
          /\ ~ClientPublish
          /\ pc' \in ShutdownPcs
          /\ pc' = "done" =>
                /\ ret' = "0"
                /\ ~loop_running' /\ session' = "closed"
                /\ stops' = 1 /\ disconnects' = 1]_vars

C5_Witness == int_at = "sleep_interval" /\ pc = "done"

\* C6: run() returns 1 exactly when the initial connect() failed; a return
\* through the shutdown path is 0, whatever failed after the initial
\* connection.
C6_ExitStatus ==
    /\ ret = "1" <=> init_result \in ConnectFailures
    /\ pc = "done" => ret \in {"0", "1"}
    /\ (pc = "done" /\ stops > 0) => ret = "0"

C6_Witness ==
    /\ pc = "done" /\ ret = "0"
    /\ last_connect \in ConnectFailures
    /\ pt_outcome \in {"rejected", "error"}

\* C7: once in the main loop, the main thread leaves it only by an interrupt
\* or by an unexpected error of the loop body: no disconnect, failed publish
\* or failed reconnect takes it out.
C7_LoopSurvivesFailures ==
    [][(InLoop /\ ~InLoop') => (int_at' # int_at \/ errored' # errored)]_vars

C7_Witness ==
    /\ pc = "loop_top"
    /\ last_connect \in ConnectFailures
    /\ pt_outcome = "error"
    /\ suspended

\* Positions of a loop iteration before its publish.
BeforePublishPcs == {"loop_top", "pt_check", "pt_stamp", "pt_publish"}

\* C9: while the flag stays Connected and publishes succeed, every cycle
\* issues one publish and then one interval sleep: after the publish the run
\* holds one publish more than sleeps, at the top of the loop as many, so N
\* cycles give N messages; and the published unix_time never decreases.
C9_OnePublishPerCycle ==
    /\ (run_pubs > 0 /\ InLoop) =>
          /\ connected
          /\ pc \in BeforePublishPcs \cup {"sleep_interval"}
          /\ pc = "sleep_interval" => run_pubs = run_sleeps + 1
          /\ pc \in BeforePublishPcs => run_pubs = run_sleeps
    /\ pc = "pt_publish" => unix_time >= last_pub

C9_Witness == pc = "loop_top" /\ run_pubs = MaxRun /\ run_sleeps = MaxRun

\* C10: publish_time() running its check with the flag Disconnected calls
\* nothing on the client, ends as "skipped" (returns False), returns to
\* run() without raising, and leaves the flag as it was.
C10_PublishWhileDisconnected ==
    [][(pc = "pt_check" /\ ~connected /\ pc' # pc /\ int_at' = int_at) =>
          /\ ~ClientPublish
          /\ pc' = "sleep_interval"
          /\ pt_outcome' = "skipped"
          /\ ~publish_time_result(pt_outcome')
          /\ connected' = connected
          /\ session' = session /\ last_pub' = last_pub
          /\ errored' = errored]_vars

C10_Witness == pc = "sleep_interval" /\ pt_outcome = "skipped"

\* C8: after a disconnect event in the main loop, if no interrupt and no
\* unexpected error occurs and the broker becomes stable, the main thread
\* eventually stands at the client.publish call of line 122 again (which,
\* the main thread being scheduled, it then issues).
C8_RecoveryIsLive ==
    ([](int_at = "none" /\ ~errored) /\ <>broker_ok)
        => [](suspended => <>(pc = "pt_publish"))

C8_Witness ==
    /\ pc = "pt_publish"
    /\ broker_ok
    /\ caller = "loop" /\ last_connect = "ok"

\* C11: for every captured second t >= 0, publish_time() called while
\* Connected captures t from the clock and hands client.publish the topic
\* tc001/time, qos 1, and a payload that reads back as a JSON object with
\* the single key unix_time and the integer value t.
C11_PayloadIsUnixTime ==
    [][/\ (pc = "pt_stamp" /\ pc' = "pt_publish") => (unix_time' = now /\ now >= 0)
       /\ ClientPublish =>
            /\ publish_topic = "tc001/time"
            /\ publish_qos = 1
            /\ json_loads(publish_payload) = << <<KeyUnixTime, unix_time>> >>
            /\ last_pub' = unix_time]_vars

C11_Witness == pc = "sleep_interval" /\ pt_outcome = "published" /\ last_pub > 10

\* C12: an unexpected error raised in the main loop does not leave run():
\* the main thread goes through the handler and the shutdown path, which
\* runs once, and run() returns normally with the network loop stopped and
\* the client disconnected.
C12_UnexpectedErrorShutsDown ==
    errored =>
        /\ pc \in {"except_exc", "finally_disconnect", "done"}
        /\ stops <= 1 /\ disconnects <= 1
        /\ pc = "finally_disconnect" => (stops = 1 /\ ~loop_running)
        /\ pc = "done" =>
              /\ ret = "0"
              /\ stops = 1 /\ disconnects = 1
              /\ ~loop_running /\ session = "closed"

C12_Witness == errored /\ pc = "done"

\* A step of the main thread that moves it, other than the delivery of an
\* interrupt or of an unexpected error.
MainMove == pc' # pc /\ int_at' = int_at /\ errored' = errored

\* C13: a cycle that finds the flag Disconnected at the top of the loop
\* calls connect() (once: no step goes back to its first statement) and not
\* publish_time(); a failed connect() leads to the cooldown and from there
\* to the top of the loop, without interval sleep; a successful one leads to
\* the interval sleep and from there to the top of the loop.
C13_DisconnectedCycle ==
    [][MainMove =>
         /\ (pc = "loop_top" /\ ~connected) => (pc' = "c_open" /\ caller' = "loop")
         /\ (pc \in ConnectPcs /\ caller = "loop") =>
               /\ pc' \in (ConnectPcs \ {"c_open"}) \cup {"cooldown", "sleep_interval"}
               /\ pc' = "cooldown" => last_connect' \in ConnectFailures
               /\ pc' = "sleep_interval" => last_connect' = "ok"
         /\ pc = "cooldown" => pc' = "loop_top"
         /\ (pc = "sleep_interval" /\ last_connect = "ok") => pc' = "loop_top"]_vars

C13_Witness == pc = "cooldown" /\ last_connect = "timeout" /\ suspended

\* C14: connect() always terminates.  Its wait polls only while the flag is
\* Disconnected, in steps of one half second and at most WaitLimit (20)
\* times; it returns success exactly when its check after the wait (line 97)
\* finds the flag Connected, failure when the flag is still Disconnected
\* there, and failure when opening the session raised.
C14_ConnectTerminates ==
    /\ [](wait_time \in 0..WaitLimit)
    /\ [][/\ (pc = "c_wait" /\ pc' = "c_wait" /\ wait_time' # wait_time) =>
                (~connected /\ wait_time' = wait_time + WaitStep)
          /\ (pc \in ConnectPcs /\ pc' \notin ConnectPcs /\ int_at' = int_at) =>
                /\ pc \in {"c_open", "c_check"}
                /\ last_connect' = "ok" <=> (pc = "c_check" /\ connected)
                /\ last_connect' \in ConnectFailures <=> (pc = "c_open" \/ ~connected)
                /\ pc = "c_open" => last_connect' = "error"]_vars
    /\ [](pc \in ConnectPcs => <>(pc \notin ConnectPcs))

C14_Witness == pc = "c_check" /\ wait_time = WaitLimit /\ ~connected

\* Positions of connect() after its CONNECT has been sent.
ConnectSentPcs == {"c_loop_start", "c_wait", "c_check"}

\* C15: when the broker answers a connection attempt with a non-zero reason
\* code and no acknowledgment with reason code 0 is in effect (the flag is
\* Disconnected), connect() returns failure with the flag Disconnected: at
\* the refusal the call that made the attempt is still running or has
\* returned failure (unless an interrupt cut it short), the flag stays
\* Disconnected while the refusal is the last answer, and a call returning
\* after the refusal returns failure.
C15_RefusedConnectFails ==
    [][/\ (session = "pending" /\ session' = "refused" /\ ~connected
             /\ int_at \notin {"init", "loop"}) =>
            (pc \in ConnectSentPcs \/ last_connect \in ConnectFailures)
       /\ session' = "refused" => ~connected'
       /\ (pc \in ConnectPcs /\ pc' \notin ConnectPcs /\ int_at' = int_at
             /\ session = "refused") =>
            (last_connect' \in ConnectFailures /\ ~connected')]_vars

C15_Witness ==
    /\ session = "refused" /\ last_connect = "refused"
    /\ pc \in {"cooldown", "done"}

\* The network loop invokes one of the connection callbacks.
Callback == (\E rc \in ReasonCodes : net_connack(rc)) \/ net_disconnect

\* C16: self.connected changes only in on_connect and on_disconnect; no
\* step of connect(), publish_time() or run() changes it, so after a failed
\* publish the flag is what it was and the next cycle publishes again
\* unless a disconnect has arrived.
C16_FlagWrittenByCallbacksOnly ==
    [][/\ connected' # connected => (Callback /\ pc' = pc)
       /\ pc' # pc => connected' = connected
       /\ ClientPublish => connected' = connected]_vars

C16_Witness ==
    /\ pc = "pt_check" /\ connected
    /\ pt_outcome \in {"rejected", "error"}

\* C17: whenever run() has returned, by line 170 or by line 145, the
\* network loop started by connect() is stopped and the client, if it
\* opened a session, has been disconnected.
C17_ReturnReleasesSession ==
    pc = "done" =>
        /\ ~loop_running
        /\ session # "none" => (disconnects = 1 /\ session = "closed")

\* The main thread executes client.connect() (line 88) without an exception.
ClientConnect == pc = "c_open" /\ pc' = "c_loop_start"

\* C18: the main loop opens a new session only while the flag is
\* Disconnected, also when an acknowledgment arrives between the check of
\* the flag at line 149 and the call of client.connect().
C18_ConnectOnlyWhileDisconnected ==
    [][(ClientConnect /\ caller = "loop") => ~connected]_vars

\* The main thread executes client.loop_start() (line 89).
LoopStart == pc = "c_loop_start" /\ pc' = "c_wait"

\* C19: connect() does not call loop_start() while the network loop started
\* by an earlier connect() is still running.
C19_LoopStartedOnce == [][LoopStart => ~loop_running]_vars

====
